---- MODULE Spec2Model ----
(***************************************************************************)
(* A model of festivus.py: a FUSE filesystem over a Google Cloud Storage   *)
(* bucket with a Redis metadata cache.                                     *)
(*                                                                         *)
(* Strings are sequences of tokens: "/" , one-letter path components and   *)
(* the reserved marker DIR_METADATA, so that string concatenation is \o    *)
(* and the keys the code builds by concatenation are built the same way.   *)
(* Numbers stored in Redis are decimal digit sequences, as str() writes    *)
(* them and int()/float() read them back.                                  *)
(***************************************************************************)
EXTENDS Integers, Sequences, FiniteSets, TLC

VARIABLES
    objects,     \* the bucket: blob name -> [content, updated, time_created]
    now,         \* the object store's clock, in whole seconds
    redis,       \* the Redis database: key -> set or hash
    base_key,    \* self.base_key
    phase,       \* "stopped" | "indexing" | "serving": where the process is
    listing,     \* what self.bucket.list_blobs() returned to the running/last indexer
    cursor,      \* index in listing of the next blob of the for loop of __init__
    indexed,     \* TRUE iff the last indexer run went through its whole listing
    prev,        \* history: the listing and the database left by the previous full run
    runs,        \* how many times the indexer was started
    temp_files,  \* self.temp_files: path -> buffer
    last,        \* the last filesystem call and what it returned or raised
    trip         \* history: how far the calls went through open, write, flush,
                 \* release, open on one path, or through open, open, release

vars == <<objects, now, redis, base_key, phase, listing, cursor, indexed, prev,
          runs, temp_files, last, trip>>

---------------------------------------------------------------------------
(* Bounds of the model *)

\* The clock runs from TimeBase to TimeBase + MaxTick; the range contains a
\* minute boundary (60 s).
TimeBase == 59
MaxTick == 1
\* Objects hold at most MaxLen bytes.
MaxLen == 1
\* The indexer is started at most MaxRuns times.
MaxRuns == 2

---------------------------------------------------------------------------
(* Program constants *)

BLOCK_SIZE == 256
DIR_METADATA == "__dir_metadata__"
S_IFDIR == 16384
S_IFREG == 32768
Perm644 == 420
getuid == 1000

---------------------------------------------------------------------------
(* Strings, numbers, Python dictionaries *)

\* ASCII order of the tokens, by first character.
TokenOrd(t) ==
    CASE t = "/" -> 47
      [] t = DIR_METADATA -> 95
      [] t = "a" -> 97
      [] t = "b" -> 98
      [] t = "c" -> 99
      [] t = "d" -> 100
      [] t = "n" -> 110
      [] t = "z" -> 122

RECURSIVE StrLess(_, _)
\* s < t for Python/GCS strings: lexicographic, a proper prefix is smaller.
StrLess(s, t) ==
    IF s = <<>> THEN t # <<>>
    ELSE IF t = <<>> THEN FALSE
    ELSE IF Head(s) = Head(t) THEN StrLess(Tail(s), Tail(t))
    ELSE TokenOrd(Head(s)) < TokenOrd(Head(t))

RECURSIVE DecStr(_)
\* str(n) for n >= 0: the decimal digits of n.
DecStr(n) == IF n < 10 THEN <<n>> ELSE DecStr(n \div 10) \o <<n % 10>>

RECURSIVE ParseNum(_)
\* int(s) / float(s) of a decimal digit string.
ParseNum(s) ==
    IF Len(s) = 1 THEN s[1]
    ELSE 10 * ParseNum(SubSeq(s, 1, Len(s) - 1)) + s[Len(s)]

\* datetime.strftime('%S'): the seconds of the minute, not of the epoch.
StrftimeSecondOfMinute(t) == DecStr(t % 60)

\* datetime.strftime('%s'): seconds since the epoch, in decimal.
StrftimeEpoch(t) == DecStr(t)

\* Keys of a Python dict are str or bytes objects; b'x' # 'x'.
PyStr(f) == <<"str", f>>
PyBytes(f) == <<"bytes", f>>

\* key.decode() for every key of a dict of bytes keys (the values, ASCII digit
\* strings, decode to themselves).
DecodeDict(d) == [k \in {PyStr(x[2]) : x \in DOMAIN d} |-> d[PyBytes(k[2])]]

\* d[k] = v on a Python dict.
DictSet(d, k, v) == (k :> v) @@ d

---------------------------------------------------------------------------
(* os.path.split and str.split *)

\* The index of the last "/" of s, 0 if there is none (str.rfind + 1).
LastSlash(s) ==
    IF \E i \in 1..Len(s) : s[i] = "/"
    THEN CHOOSE i \in 1..Len(s) : s[i] = "/" /\ \A j \in (i+1)..Len(s) : s[j] # "/"
    ELSE 0

RECURSIVE RStripSlash(_)
RStripSlash(s) ==
    IF s # <<>> /\ s[Len(s)] = "/" THEN RStripSlash(SubSeq(s, 1, Len(s) - 1)) ELSE s

\* os.path.split(p): <<head, tail>>; head loses its trailing slashes unless it
\* is all slashes.
PathSplit(p) ==
    LET i == LastSlash(p)
        head == SubSeq(p, 1, i)
        tail == SubSeq(p, i + 1, Len(p))
    IN  <<IF \E j \in 1..Len(head) : head[j] # "/" THEN RStripSlash(head) ELSE head,
          tail>>

RECURSIVE SplitSlash(_)
\* s.split('/'): the pieces of s between its slashes, empty pieces included.
SplitSlash(s) ==
    IF \A i \in 1..Len(s) : s[i] # "/" THEN <<s>>
    ELSE LET i == CHOOSE k \in 1..Len(s) : s[k] = "/" /\ \A j \in 1..(k-1) : s[j] # "/"
         IN  <<SubSeq(s, 1, i - 1)>> \o SplitSlash(SubSeq(s, i + 1, Len(s)))

\* The parts without the slash appended to each.
DirPartsNoSlash(path) == SelectSeq(SplitSlash(path), LAMBDA x : x # <<>>)

\* (part + '/' for part in path.split('/') if part != '')
DirParts(path) ==
    LET pieces == SplitSlash(path)
        keep == SelectSeq(pieces, LAMBDA x : x # <<>>)
    IN  [i \in 1..Len(keep) |-> keep[i] \o <<"/">>]

---------------------------------------------------------------------------
(* Redis: a key holds one data type *)

NoKeys == [k \in {} |-> 0]

\* HGETALL key: the dict of a hash (bytes keys), the empty dict of a missing
\* key, and a ResponseError (WRONGTYPE) for a key that holds a set.
HGetAll(r, key) ==
    IF key \notin DOMAIN r THEN [ok |-> TRUE, dict |-> NoKeys]
    ELSE IF r[key].type = "hash"
    THEN [ok |-> TRUE,
          dict |-> [k \in {PyBytes(f) : f \in DOMAIN r[key].fields}
                      |-> r[key].fields[k[2]]]]
    ELSE [ok |-> FALSE, dict |-> NoKeys]

\* HINCRBY in the place of HSET: the value is added to the one stored.
HIncrBy(r, key, field, value) ==
    IF key \notin DOMAIN r
    THEN [redis |-> (key :> [type |-> "hash", fields |-> (field :> value)]) @@ r,
          ok |-> TRUE]
    ELSE IF r[key].type = "hash"
    THEN [redis |-> [r EXCEPT ![key].fields =
                        (field :> IF field \in DOMAIN @
                                  THEN DecStr(ParseNum(@[field]) + ParseNum(value))
                                  ELSE value) @@ @],
          ok |-> TRUE]
    ELSE [redis |-> r, ok |-> FALSE]

\* HSET key field value: [redis, ok]; WRONGTYPE changes nothing.
HSet(r, key, field, value) ==
    IF key \notin DOMAIN r
    THEN [redis |-> (key :> [type |-> "hash", fields |-> (field :> value)]) @@ r,
          ok |-> TRUE]
    ELSE IF r[key].type = "hash"
    THEN [redis |-> [r EXCEPT ![key].fields = (field :> value) @@ @], ok |-> TRUE]
    ELSE [redis |-> r, ok |-> FALSE]

\* SADD key member
SAdd(r, key, member) ==
    IF key \notin DOMAIN r
    THEN [redis |-> (key :> [type |-> "set", members |-> {member}]) @@ r, ok |-> TRUE]
    ELSE IF r[key].type = "set"
    THEN [redis |-> [r EXCEPT ![key].members = @ \cup {member}], ok |-> TRUE]
    ELSE [redis |-> r, ok |-> FALSE]

\* SMEMBERS key
SMembers(r, key) ==
    IF key \notin DOMAIN r THEN [ok |-> TRUE, members |-> {}]
    ELSE IF r[key].type = "set" THEN [ok |-> TRUE, members |-> r[key].members]
    ELSE [ok |-> FALSE, members |-> {}]

SAddCmd(key, member) == [cmd |-> "sadd", key |-> key, member |-> member]
HSetCmd(key, field, value) == [cmd |-> "hset", key |-> key, field |-> field, value |-> value]

RECURSIVE PipeExecute(_, _, _)
\* pipe.execute(): MULTI/EXEC runs every queued command in order; a command
\* that fails does not undo or stop the others, and the first failure is
\* raised afterwards as a ResponseError.
PipeExecute(r, pipe, ok) ==
    IF pipe = <<>> THEN [redis |-> r, ok |-> ok]
    ELSE LET c == Head(pipe)
             res == IF c.cmd = "sadd" THEN SAdd(r, c.key, c.member)
                    ELSE HSet(r, c.key, c.field, c.value)
         IN  PipeExecute(res.redis, Tail(pipe), ok /\ res.ok)

---------------------------------------------------------------------------
(* The bucket *)

\* The blob names of the model: a file "a" beside a directory "a/", a blob two
\* directories deep and a blob one directory deep.
Names == { <<"a">>, <<"a", "/", "b", "/", "c">>, <<"a", "/", "d">> }

\* The bytes objects are made of; no operation looks into a byte.
ByteValues == {"x"}

RECURSIVE SeqsUpTo(_)
SeqsUpTo(n) ==
    IF n = 0 THEN {<<>>}
    ELSE LET shorter == SeqsUpTo(n - 1)
         IN  shorter \cup {Append(s, b) : s \in {x \in shorter : Len(x) = n - 1},
                                          b \in ByteValues}

Contents == SeqsUpTo(MaxLen)

RECURSIVE SortNames(_)
SortNames(S) ==
    IF S = {} THEN <<>>
    ELSE LET m == CHOOSE x \in S : \A y \in S : x = y \/ StrLess(x, y)
         IN  <<m>> \o SortNames(S \ {m})

\* self.bucket.list_blobs(): every object once, in lexicographic order of the
\* names (the order the object store lists in), with the metadata it holds.
list_blobs(objs) ==
    LET names == SortNames(DOMAIN objs)
    IN  [i \in 1..Len(names) |->
            [name |-> names[i],
             size |-> Len(objs[names[i]].content),
             updated |-> objs[names[i]].updated,
             time_created |-> objs[names[i]].time_created]]

\* self.bucket.get_blob(name): the blob, or None.
get_blob(objs, name) ==
    IF name \in DOMAIN objs THEN [none |-> FALSE, name |-> name] ELSE [none |-> TRUE]

---------------------------------------------------------------------------
(* The Bulk Indexer: the body of `for blob in self.bucket.list_blobs()` *)

\* The three hset calls of the `except KeyError` branch, sent at once (on
\* self.redis, not on the pipeline).
DirMetadataCreate(r, base_metadata, blob) ==
    LET r1 == HSet(r, base_metadata, "st_mtime", StrftimeEpoch(blob.updated)).redis
        r2 == HSet(r1, base_metadata, "st_atime", StrftimeEpoch(blob.updated)).redis
    IN  HSet(r2, base_metadata, "st_ctime", StrftimeEpoch(blob.time_created)).redis

RECURSIVE IndexParts(_, _, _, _, _, _, _)
\* The loop `for part in parts`, from its i-th round on. failAt = i makes the
\* Redis connection fail at the hgetall of round i. The result is
\* [redis, base, pipe, fault]; fault is "none" or the exception that ended
\* the loop.
\*   hgetall returns a dict with bytes keys, so dir_stat['st_mtime'] raises
\*   KeyError whenever it is evaluated and the record is (re)written from the
\*   blob at hand. Were the str key there, strptime(..., '%s') would raise
\*   ValueError ('s' is a bad directive): the else branch is never entered.
IndexParts(r, base, parts, i, pipe, blob, failAt) ==
    IF i > Len(parts) THEN [redis |-> r, base |-> base, pipe |-> pipe, fault |-> "none"]
    ELSE IF failAt = i
    THEN [redis |-> r, base |-> base, pipe |-> pipe, fault |-> "ConnectionError"]
    ELSE LET base_metadata == base \o <<DIR_METADATA>>
             dir_stat == HGetAll(r, base_metadata)
         IN  IF ~dir_stat.ok
             THEN [redis |-> r, base |-> base, pipe |-> pipe, fault |-> "ResponseError"]
             ELSE IF PyStr("st_mtime") \in DOMAIN dir_stat.dict
             THEN [redis |-> r, base |-> base, pipe |-> pipe, fault |-> "ValueError"]
             ELSE IndexParts(DirMetadataCreate(r, base_metadata, blob),
                             base \o parts[i], parts, i + 1,
                             Append(pipe, SAddCmd(base, parts[i])), blob, failAt)

\* The commands queued for the leaf: its name in its directory's set and its
\* own attribute record.
LeafCommands(base, name, blob) ==
    LET key == base \o name
    IN  << SAddCmd(base, name),
           HSetCmd(key, "st_mtime", StrftimeEpoch(blob.updated)),
           HSetCmd(key, "st_atime", StrftimeEpoch(blob.updated)),
           HSetCmd(key, "st_ctime", StrftimeEpoch(blob.time_created)),
           HSetCmd(key, "st_size", DecStr(blob.size)) >>

\* One round of the loop over the blobs: [redis, fault]. failAt = 0: the
\* connection holds; failAt = i in 1..Len(parts): it fails at round i of the
\* inner loop; failAt = Len(parts) + 1: it fails in pipe.execute(), which
\* then has run none of the queued commands.
IndexBlobResult(r, bk, blob, failAt) ==
    LET split == PathSplit(blob.name)
        parts == DirParts(split[1])
        loop == IndexParts(r, bk \o <<"/">>, parts, 1, <<>>, blob, failAt)
        pipe == loop.pipe \o LeafCommands(loop.base, split[2], blob)
    IN  IF loop.fault # "none" THEN [redis |-> loop.redis, fault |-> loop.fault]
        ELSE IF failAt = Len(parts) + 1
        THEN [redis |-> loop.redis, fault |-> "ConnectionError"]
        ELSE LET done == PipeExecute(loop.redis, pipe, TRUE)
             IN  [redis |-> done.redis,
                  fault |-> IF done.ok THEN "none" ELSE "ResponseError"]

NumParts(blob) == Len(DirParts(PathSplit(blob.name)[1]))

---------------------------------------------------------------------------
(* getattr and readdir *)

Raise(exc) == [tag |-> exc, attrs |-> NoKeys]

\* st_mode | st_size | st_nlink of the directory branches.
DirAttrs(attrs) ==
    DictSet(DictSet(DictSet(DecodeDict(attrs), PyStr("st_mode"), S_IFDIR + Perm644),
                    PyStr("st_size"), DecStr(BLOCK_SIZE * 4)),
            PyStr("st_nlink"), 2)

\* The file branch with the directory branch's st_size line copied into it.
FileAttrsDirSize(attrs) ==
    DictSet(DictSet(DictSet(DecodeDict(attrs), PyStr("st_mode"), S_IFREG + Perm644),
                    PyStr("st_size"), DecStr(BLOCK_SIZE * 4)),
            PyStr("st_nlink"), 1)

\* st_mode | st_nlink of the file branch.
FileAttrs(attrs) ==
    DictSet(DictSet(DecodeDict(attrs), PyStr("st_mode"), S_IFREG + Perm644),
            PyStr("st_nlink"), 1)

\* Lines 119-147: the record for base_key + path, or the exception raised.
\* An hgetall that raises outside the try (on the metadata key) is not caught.
Classify(r, key) ==
    LET direct == HGetAll(r, key)
    IN  IF ~direct.ok
        THEN LET meta == HGetAll(r, key \o <<DIR_METADATA>>)
             IN  IF ~meta.ok THEN Raise("ResponseError")
                 ELSE IF meta.dict # NoKeys
                 THEN [tag |-> "ok", attrs |-> DirAttrs(meta.dict)]
                 ELSE Raise("ENOENT")
        ELSE IF direct.dict # NoKeys
        THEN [tag |-> "ok", attrs |-> FileAttrs(direct.dict)]
        ELSE LET meta == HGetAll(r, key \o <<"/", DIR_METADATA>>)
             IN  IF ~meta.ok THEN Raise("ResponseError")
                 ELSE IF meta.dict # NoKeys
                 THEN [tag |-> "ok", attrs |-> DirAttrs(meta.dict)]
                 ELSE Raise("ENOENT")

\* Lines 148-156: the derived fields. attrs['st_size'] and attrs[t] raise
\* KeyError on a record that lacks the field.
Derive(attrs) ==
    IF \E f \in {"st_size", "st_atime", "st_mtime", "st_ctime"} : PyStr(f) \notin DOMAIN attrs
    THEN Raise("KeyError")
    ELSE LET size == ParseNum(attrs[PyStr("st_size")])
             fixed == [k \in {PyStr(f) : f \in {"st_uid", "st_gid", "st_dev", "st_ino",
                                               "st_blocks", "st_atime", "st_mtime",
                                               "st_ctime", "st_size"}} |->
                         CASE k[2] \in {"st_uid", "st_gid"} -> getuid
                           [] k[2] \in {"st_dev", "st_ino"} -> 0
                           [] k[2] = "st_blocks" -> (size + BLOCK_SIZE - 1) \div BLOCK_SIZE
                           [] k[2] = "st_size" -> size
                           [] OTHER -> ParseNum(attrs[k])]
         IN  [tag |-> "ok", attrs |-> fixed @@ attrs]

\* getattr(path): [tag |-> "ok", attrs] or [tag |-> the exception].
\* "ENOENT" is FuseOSError(errno.ENOENT).
GetAttr(r, bk, path) ==
    LET c == Classify(r, bk \o path)
    IN  IF c.tag = "ok" THEN Derive(c.attrs) ELSE c

\* readdir(path): the members of the set at base_key + path.
ReadDir(r, bk, path) ==
    LET m == SMembers(r, bk \o path)
    IN  IF m.ok THEN [tag |-> "ok", names |-> m.members]
        ELSE [tag |-> "ResponseError", names |-> {}]

\* stat.S_ISDIR / stat.S_ISREG of a returned record.
ModeFmt(mode) == mode - (mode % 4096)
IsDirRecord(res) == res.tag = "ok" /\ ModeFmt(res.attrs[PyStr("st_mode")]) = S_IFDIR
IsFileRecord(res) == res.tag = "ok" /\ ModeFmt(res.attrs[PyStr("st_mode")]) = S_IFREG

---------------------------------------------------------------------------
(* The state machine *)

BaseKeys == { <<>>, <<"n">> }

FusePath(name) == <<"/">> \o name

\* The paths the transport asks about: the root, every directory with and
\* without its trailing slash, every blob, the marker under every directory,
\* and a path nothing was ever stored at.
Paths ==
    { <<"/">>, FusePath(<<"a">>), FusePath(<<"a", "/">>), FusePath(<<"a", "/", "b">>),
      FusePath(<<"a", "/", "b", "/">>), FusePath(<<"a", "/", "b", "/", "c">>),
      FusePath(<<"a", "/", "d">>), FusePath(<<DIR_METADATA>>),
      FusePath(<<"a", "/", DIR_METADATA>>), FusePath(<<"a", "/", "b", "/", DIR_METADATA>>),
      FusePath(<<"z">>) }

\* The paths the transport lists: the directories, a blob and a missing path.
ListPaths ==
    {p \in Paths : p[Len(p)] = "/"} \cup {FusePath(<<"a">>), FusePath(<<"z">>)}

\* The paths the transport opens.
FilePaths == { FusePath(n) : n \in Names }

NoCall == [op |-> "none"]
NoTrip == [stage |-> "none"]
NoPrev == [valid |-> FALSE, listing |-> <<>>, redis |-> NoKeys]

Init ==
    /\ objects = NoKeys
    /\ now = TimeBase
    /\ redis = NoKeys
    /\ base_key \in BaseKeys
    /\ phase = "stopped"
    /\ listing = <<>>
    /\ cursor = 1
    /\ indexed = FALSE
    /\ prev = NoPrev
    /\ runs = 0
    /\ temp_files = NoKeys
    /\ last = NoCall
    /\ trip = NoTrip

(* The object store: its clock and its other clients *)

Tick ==
    /\ now < TimeBase + MaxTick
    /\ now' = now + 1
    /\ UNCHANGED <<objects, redis, base_key, phase, listing, cursor, indexed, prev, runs,
                   temp_files, last, trip>>

\* A new object is uploaded to the bucket.
Upload(name, content) ==
    /\ name \notin DOMAIN objects
    /\ objects' = (name :> [content |-> content, updated |-> now,
                            time_created |-> now]) @@ objects
    /\ UNCHANGED <<now, redis, base_key, phase, listing, cursor, indexed, prev, runs,
                   temp_files, last, trip>>

\* Another client replaces an object: a new generation, created now.
Overwrite(name, content) ==
    /\ name \in DOMAIN objects
    /\ objects[name].content # content
    /\ objects' = [objects EXCEPT ![name] = [content |-> content, updated |-> now,
                                            time_created |-> now]]
    /\ UNCHANGED <<now, redis, base_key, phase, listing, cursor, indexed, prev, runs,
                   temp_files, last, trip>>

\* An object's metadata is patched: its modification time increases.
Touch(name) ==
    /\ name \in DOMAIN objects
    /\ objects[name].updated < now
    /\ objects' = [objects EXCEPT ![name].updated = now]
    /\ UNCHANGED <<now, redis, base_key, phase, listing, cursor, indexed, prev, runs,
                   temp_files, last, trip>>

(* The process *)

\* Festivus(...) is constructed, lines 38-55: with init, list_blobs() is
\* called and the loop over the blobs begins (over no blob, it is over).
Start(init) ==
    /\ phase = "stopped"
    /\ temp_files' = NoKeys
    /\ last' = NoCall
    /\ trip' = NoTrip
    /\ IF init
       THEN /\ runs < MaxRuns
            /\ runs' = runs + 1
            /\ listing' = list_blobs(objects)
            /\ cursor' = 1
            /\ indexed' = (listing' = <<>>)
            /\ phase' = IF listing' = <<>> THEN "serving" ELSE "indexing"
            /\ prev' = IF indexed
                       THEN [valid |-> TRUE, listing |-> listing, redis |-> redis]
                       ELSE NoPrev
       ELSE /\ phase' = "serving"
            /\ UNCHANGED <<listing, cursor, indexed, prev, runs>>
    /\ UNCHANGED <<objects, now, redis, base_key>>

\* One round of `for blob in self.bucket.list_blobs()`, lines 56-104, with
\* Redis reachable. An exception ends the process.
IndexBlob ==
    /\ phase = "indexing"
    /\ LET res == IndexBlobResult(redis, base_key, listing[cursor], 0)
       IN  /\ redis' = res.redis
           /\ IF res.fault = "none"
              THEN /\ cursor' = cursor + 1
                   /\ indexed' = (cursor' > Len(listing))
                   /\ phase' = IF cursor' > Len(listing) THEN "serving" ELSE "indexing"
              ELSE /\ phase' = "stopped"
                   /\ UNCHANGED <<cursor, indexed>>
    /\ UNCHANGED <<objects, now, base_key, listing, prev, runs, temp_files, last, trip>>

\* The same round with the Redis connection lost at one of its calls: an
\* uncaught ConnectionError of hgetall, or sys.exit(0) after pipe.execute().
IndexBlobConnectionLost ==
    /\ phase = "indexing"
    /\ \E failAt \in 1..(NumParts(listing[cursor]) + 1) :
          redis' = IndexBlobResult(redis, base_key, listing[cursor], failAt).redis
    /\ phase' = "stopped"
    /\ UNCHANGED <<objects, now, base_key, listing, cursor, indexed, prev, runs, temp_files, last, trip>>

\* The filesystem is unmounted and the process ends.
Stop ==
    /\ phase = "serving"
    /\ phase' = "stopped"
    /\ temp_files' = NoKeys
    /\ last' = NoCall
    /\ trip' = NoTrip
    /\ UNCHANGED <<objects, now, redis, base_key, listing, cursor, indexed, prev, runs>>

(* The filesystem operations; the transport calls one at a time (nothreads) *)

Getattr(path) ==
    /\ phase = "serving"
    /\ last' = [op |-> "getattr", path |-> path, res |-> GetAttr(redis, base_key, path)]
    /\ UNCHANGED <<objects, now, redis, base_key, phase, listing, cursor, indexed, prev,
                   runs, temp_files, trip>>

Readdir(path) ==
    /\ phase = "serving"
    /\ last' = [op |-> "readdir", path |-> path, res |-> ReadDir(redis, base_key, path)]
    /\ UNCHANGED <<objects, now, redis, base_key, phase, listing, cursor, indexed, prev,
                   runs, temp_files, trip>>

\* buf[offset:offset+length] for offset, length >= 0: clamped to the buffer.
PySlice(buf, offset, length) ==
    SubSeq(buf, offset + 1, IF offset + length < Len(buf) THEN offset + length ELSE Len(buf))

Lengths == 0..(MaxLen + 1)
Offsets == 0..MaxLen

\* An open that keeps the buffer of a path that is open already.
OpenKeepsFirst(path) ==
    /\ phase = "serving"
    /\ Tail(path) \in DOMAIN objects
    /\ temp_files' = IF path \in DOMAIN temp_files THEN temp_files
                     ELSE (path :> objects[Tail(path)].content) @@ temp_files
    /\ last' = [op |-> "open", path |-> path, before |-> temp_files,
                res |-> [tag |-> "ok", type |-> "int", val |-> 0]]
    /\ trip' = NoTrip
    /\ UNCHANGED <<objects, now, redis, base_key, phase, listing, cursor, indexed, prev, runs>>

\* open(path, flags), lines 206-209: get_blob returns None for a missing
\* object and None.download_as_string() raises AttributeError.
Open(path) ==
    /\ phase = "serving"
    /\ LET blob == get_blob(objects, Tail(path))
       IN  IF blob.none
           THEN /\ last' = [op |-> "open", path |-> path, before |-> temp_files,
                            res |-> [tag |-> "AttributeError"]]
                /\ trip' = NoTrip
                /\ UNCHANGED temp_files
           ELSE /\ temp_files' = (path :> objects[blob.name].content) @@ temp_files
                /\ last' = [op |-> "open", path |-> path, before |-> temp_files,
                            res |-> [tag |-> "ok", type |-> "int", val |-> 0]]
                /\ trip' = IF trip.stage = "released" /\ trip.path = path
                           THEN [trip EXCEPT !.stage = "reopened"]
                           ELSE IF trip.stage \in {"opened", "opened_twice"}
                                   /\ trip.path = path
                           THEN [stage |-> "opened_twice", path |-> path]
                           ELSE [stage |-> "opened", path |-> path]
    /\ UNCHANGED <<objects, now, redis, base_key, phase, listing, cursor, indexed, prev, runs>>

\* read(path, length, offset, fh), lines 220-224: self.temp_files[path] raises
\* KeyError without a session; an empty buffer is falsy and is fetched again;
\* the slice is computed and dropped, and `length` is what is returned.
Read(path, length, offset) ==
    /\ phase = "serving"
    /\ IF path \notin DOMAIN temp_files
       THEN /\ last' = [op |-> "read", path |-> path, length |-> length, offset |-> offset,
                        res |-> [tag |-> "KeyError"]]
            /\ UNCHANGED temp_files
       ELSE LET refetch == temp_files[path] = <<>>
                blob == get_blob(objects, Tail(path))
            IN  IF refetch /\ blob.none
                THEN /\ last' = [op |-> "read", path |-> path, length |-> length,
                                 offset |-> offset, res |-> [tag |-> "AttributeError"]]
                     /\ UNCHANGED temp_files
                ELSE /\ temp_files' = IF refetch
                                      THEN [temp_files EXCEPT
                                              ![path] = objects[blob.name].content]
                                      ELSE temp_files
                     /\ last' = [op |-> "read", path |-> path, length |-> length,
                                 offset |-> offset,
                                 res |-> [tag |-> "ok", type |-> "int", val |-> length]]
    /\ trip' = NoTrip
    /\ UNCHANGED <<objects, now, redis, base_key, phase, listing, cursor, indexed, prev, runs>>

\* write(path, buf, offset, fh), line 233: raise NotImplementedError.
Write(path, buf, offset) ==
    /\ phase = "serving"
    /\ last' = [op |-> "write", path |-> path, buf |-> buf, offset |-> offset,
                res |-> [tag |-> "NotImplementedError"]]
    /\ trip' = IF trip.stage = "opened" /\ trip.path = path /\ offset = 0
               THEN [stage |-> "written", path |-> path, data |-> buf]
               ELSE NoTrip
    /\ UNCHANGED <<objects, now, redis, base_key, phase, listing, cursor, indexed, prev, runs,
                   temp_files>>

\* A flush that catches the failure of the upload and returns normally.
FlushSwallowsFailure(path) ==
    /\ phase = "serving"
    /\ path \in DOMAIN temp_files
    /\ Tail(path) \in DOMAIN objects
    /\ last' = [op |-> "flush", path |-> path, uploaded |-> FALSE,
                res |-> [tag |-> "ok", type |-> "None"]]
    /\ trip' = NoTrip
    /\ UNCHANGED <<objects, now, redis, base_key, phase, listing, cursor, indexed, prev, runs,
                   temp_files>>

\* flush(path, fh), lines 239-241: blob.upload_from_string is looked up first
\* (AttributeError on None), then self.temp_files[path] (KeyError); the upload
\* replaces the object or fails (the store is unreachable, or the library
\* rejects the content type, which is handed over as guess_type's tuple).
Flush(path) ==
    /\ phase = "serving"
    /\ LET blob == get_blob(objects, Tail(path))
       IN  IF blob.none \/ path \notin DOMAIN temp_files
           THEN /\ last' = [op |-> "flush", path |-> path, uploaded |-> FALSE,
                            res |-> [tag |-> IF blob.none THEN "AttributeError"
                                             ELSE "KeyError"]]
                /\ trip' = NoTrip
                /\ UNCHANGED objects
           ELSE \E reached \in BOOLEAN :
                  IF reached
                  THEN /\ objects' = [objects EXCEPT ![blob.name] =
                                        [content |-> temp_files[path], updated |-> now,
                                         time_created |-> now]]
                       /\ last' = [op |-> "flush", path |-> path, uploaded |-> TRUE,
                                   res |-> [tag |-> "ok", type |-> "None"]]
                       /\ trip' = IF trip.stage = "written" /\ trip.path = path
                                  THEN [trip EXCEPT !.stage = "flushed"]
                                  ELSE NoTrip
                  ELSE /\ last' = [op |-> "flush", path |-> path, uploaded |-> FALSE,
                                   res |-> [tag |-> "UploadError"]]
                       /\ trip' = NoTrip
                       /\ UNCHANGED objects
    /\ UNCHANGED <<now, redis, base_key, phase, listing, cursor, indexed, prev, runs,
                   temp_files>>

\* A release that uploads the buffer before it discards the session.
ReleaseWriteBack(path) ==
    /\ phase = "serving"
    /\ path \in DOMAIN temp_files
    /\ Tail(path) \in DOMAIN objects
    /\ objects' = [objects EXCEPT ![Tail(path)] =
                     [content |-> temp_files[path], updated |-> now, time_created |-> now]]
    /\ temp_files' = [q \in DOMAIN temp_files \ {path} |-> temp_files[q]]
    /\ last' = [op |-> "release", path |-> path, buffer |-> temp_files[path],
                res |-> [tag |-> "ok", type |-> "None"]]
    /\ trip' = NoTrip
    /\ UNCHANGED <<now, redis, base_key, phase, listing, cursor, indexed, prev, runs>>

\* A release that counts the openers: the session of a path opened twice
\* outlives the first release.
ReleaseCounted(path) ==
    /\ phase = "serving"
    /\ path \in DOMAIN temp_files
    /\ temp_files' = IF trip.stage = "opened_twice" /\ trip.path = path
                     THEN temp_files
                     ELSE [q \in DOMAIN temp_files \ {path} |-> temp_files[q]]
    /\ last' = [op |-> "release", path |-> path, buffer |-> temp_files[path],
                res |-> [tag |-> "ok", type |-> "None"]]
    /\ trip' = IF trip.stage = "opened_twice" /\ trip.path = path
               THEN [stage |-> "one_released", path |-> path]
               ELSE NoTrip
    /\ UNCHANGED <<objects, now, redis, base_key, phase, listing, cursor, indexed, prev, runs>>

\* release(path, fh), line 244: del self.temp_files[path].
Release(path) ==
    /\ phase = "serving"
    /\ IF path \notin DOMAIN temp_files
       THEN /\ last' = [op |-> "release", path |-> path, res |-> [tag |-> "KeyError"]]
            /\ trip' = NoTrip
            /\ UNCHANGED temp_files
       ELSE /\ temp_files' = [q \in DOMAIN temp_files \ {path} |-> temp_files[q]]
            /\ last' = [op |-> "release", path |-> path, buffer |-> temp_files[path],
                        res |-> [tag |-> "ok", type |-> "None"]]
            /\ trip' = IF trip.stage = "flushed" /\ trip.path = path
                       THEN [trip EXCEPT !.stage = "released"]
                       ELSE IF trip.stage = "opened_twice" /\ trip.path = path
                       THEN [stage |-> "one_released", path |-> path]
                       ELSE NoTrip
    /\ UNCHANGED <<objects, now, redis, base_key, phase, listing, cursor, indexed, prev, runs>>

\* The bucket changes while the process is down; the indexer reads the
\* bucket once, in list_blobs(), so a change made while it runs or serves is
\* to it a change made before its next start.
TickOffline == phase = "stopped" /\ runs < MaxRuns /\ Tick
UploadOffline(name, content) == phase = "stopped" /\ runs < MaxRuns /\ Upload(name, content)
TouchOffline(name) == phase = "stopped" /\ runs < MaxRuns /\ Touch(name)

\* The process started with --init, and without it.
StartIndexer == Start(TRUE)
StartServing == Start(FALSE)

\* The indexer run again and again over a bucket that changes between the
\* runs.
ReindexNext ==
    \/ TickOffline
    \/ \E name \in Names, content \in Contents : UploadOffline(name, content)
    \/ \E name \in Names : TouchOffline(name)
    \/ StartIndexer
    \/ IndexBlob
    \/ Stop

ReindexSpec == Init /\ [][ReindexNext]_vars

\* The bucket before the database is built.
TickUnindexed == runs = 0 /\ phase = "stopped" /\ Tick
UploadUnindexed(name, content) == runs = 0 /\ phase = "stopped" /\ Upload(name, content)
TouchUnindexed(name) == runs = 0 /\ phase = "stopped" /\ Touch(name)

\* The first start with --init, over an empty database.
FirstStartIndexer == runs = 0 /\ Start(TRUE)

\* One indexer run over an empty database, and the metadata operations
\* served from what it built (or, started without --init, from nothing).
LookupNext ==
    \/ TickUnindexed
    \/ \E name \in Names, content \in Contents : UploadUnindexed(name, content)
    \/ \E name \in Names : TouchUnindexed(name)
    \/ FirstStartIndexer
    \/ StartServing
    \/ IndexBlob
    \/ Stop
    \/ \E path \in Paths : Getattr(path)
    \/ \E path \in ListPaths : Readdir(path)

LookupSpec == Init /\ [][LookupNext]_vars

\* The same, with the Redis connection lost at any call of the run: the
\* process ends and is started again without --init over what the aborted
\* run left.
AbortNext ==
    \/ TickUnindexed
    \/ \E name \in Names, content \in Contents : UploadUnindexed(name, content)
    \/ \E name \in Names : TouchUnindexed(name)
    \/ FirstStartIndexer
    \/ StartServing
    \/ IndexBlob
    \/ IndexBlobConnectionLost
    \/ Stop
    \/ \E path \in Paths : Getattr(path)
    \/ \E path \in ListPaths : Readdir(path)

AbortSpec == Init /\ [][AbortNext]_vars

\* The file operations of a process serving without the indexer, over a
\* bucket that other clients fill.
\* The objects the file operations are called on: one at the root of the
\* bucket and one in a directory.
SessionNames == { <<"a">>, <<"a", "/", "d">> }
SessionPaths == { FusePath(n) : n \in SessionNames }

SessionNext ==
    \/ \E name \in SessionNames, content \in Contents : Upload(name, content)
    \/ \E name \in SessionNames, content \in Contents : Overwrite(name, content)
    \/ StartServing
    \/ Stop
    \/ \E path \in SessionPaths : Open(path)
    \/ \E path \in SessionPaths, length \in Lengths, offset \in Offsets :
          Read(path, length, offset)
    \/ \E path \in SessionPaths, buf \in Contents, offset \in Offsets : Write(path, buf, offset)
    \/ \E path \in SessionPaths : Flush(path)
    \/ \E path \in SessionPaths : Release(path)

SessionSpec == Init /\ [][SessionNext]_vars

---------------------------------------------------------------------------
(* What the claims speak of *)

ListedNames == {listing[i].name : i \in DOMAIN listing}

DeepBlob == <<"a", "/", "b", "/", "c">>

IsPrefix(d, s) == Len(d) <= Len(s) /\ SubSeq(s, 1, Len(d)) = d

\* The directory paths, written with their trailing slash.
DirPaths == {p \in Paths : p[Len(p)] = "/"}

\* The name under which the node at `full` appears in directory d: its next
\* component, with a trailing slash if more components follow.
ChildName(d, full) ==
    LET rest == SubSeq(full, Len(d) + 1, Len(full))
    IN  IF \E i \in 1..Len(rest) : rest[i] = "/"
        THEN SubSeq(rest, 1, CHOOSE i \in 1..Len(rest) :
                                rest[i] = "/" /\ \A j \in 1..(i-1) : rest[j] # "/")
        ELSE rest

ImmediateChildren(d, names) ==
    {ChildName(d, FusePath(n)) : n \in {m \in names : IsPrefix(d, FusePath(m))}}

\* The ancestor directories of a blob: the root and every prefix of its path
\* that ends in a slash.
AncestorDirs(name) ==
    {SubSeq(FusePath(name), 1, i) : i \in {j \in 1..(Len(name) + 1) : FusePath(name)[j] = "/"}}

MetadataKey(d) == base_key \o d \o <<DIR_METADATA>>

StoredMtime(r, key) == ParseNum(r[key].fields["st_mtime"])

\* C1: after a full indexer run, readdir of every directory path returns
\* exactly the immediate children of that directory among the indexed blobs:
\* 'x/' for a sub-directory, the bare name for a blob stored in it.
C1_ReaddirImmediateChildren ==
    indexed =>
        \A d \in DirPaths :
            LET res == ReadDir(redis, base_key, d)
            IN  res.tag = "ok" /\ res.names = ImmediateChildren(d, ListedNames)

\* C1 witness: only a/b/c is indexed and readdir('/a/') returned {'b/'}.
C1_Witness ==
    /\ indexed
    /\ ListedNames = {DeepBlob}
    /\ last.op = "readdir"
    /\ last.path = FusePath(<<"a", "/">>)
    /\ last.res.tag = "ok"
    /\ last.res.names = {<<"b", "/">>}
    /\ ReadDir(redis, base_key, <<"/">>).names = {<<"a", "/">>}
    /\ ReadDir(redis, base_key, FusePath(<<"a", "/", "b", "/">>)).names = {<<"c">>}

\* C2: after a full indexer run, getattr of every indexed blob's path returns
\* a regular-file record whose st_size is the size the store listed.
C2_GetattrFileSize ==
    indexed =>
        \A i \in DOMAIN listing :
            LET res == GetAttr(redis, base_key, FusePath(listing[i].name))
            IN  IsFileRecord(res) /\ res.attrs[PyStr("st_size")] = listing[i].size

\* C2 witness: getattr of an indexed one-byte blob returned a file record of
\* size 1.
C2_Witness ==
    /\ indexed
    /\ \E i \in DOMAIN listing :
          /\ listing[i].size = 1
          /\ last.op = "getattr"
          /\ last.path = FusePath(listing[i].name)
          /\ IsFileRecord(last.res)
          /\ last.res.attrs[PyStr("st_size")] = 1

\* C3: after a full indexer run no directory entry is orphaned: for every
\* directory d and every name n that readdir(d) returns, getattr(d + n)
\* returns a directory record if n ends in a slash and a file record if not.
C3_NoOrphanedEntries ==
    indexed =>
        \A d \in DirPaths :
            \A n \in ReadDir(redis, base_key, d).names :
                LET res == GetAttr(redis, base_key, d \o n)
                IN  IF n[Len(n)] = "/" THEN IsDirRecord(res) ELSE IsFileRecord(res)

\* C7: a second full run over an unchanged listing leaves the whole database
\* (file records, directory metadata records, entry sets) as the first left it.
C7_ReindexIdempotent ==
    (indexed /\ prev.valid /\ listing = prev.listing) => redis = prev.redis

\* C7 witness: the second run over the same three blobs is complete.
C7_Witness ==
    /\ indexed
    /\ prev.valid
    /\ listing = prev.listing
    /\ ListedNames = Names
    /\ MetadataKey(<<"/">>) \in DOMAIN redis

\* The listing differs from the previous run's in the modification time of
\* exactly the blob at position i, which increased.
OnlyMtimeIncreased(i) ==
    /\ DOMAIN listing = DOMAIN prev.listing
    /\ i \in DOMAIN listing
    /\ listing[i].updated > prev.listing[i].updated
    /\ \A j \in DOMAIN listing :
          /\ listing[j].name = prev.listing[j].name
          /\ listing[j].size = prev.listing[j].size
          /\ listing[j].time_created = prev.listing[j].time_created
          /\ j # i => listing[j].updated = prev.listing[j].updated

\* C8: when one blob's modification time increased and the indexer ran
\* again, the st_mtime of every ancestor directory's metadata record is at
\* least what it was before the rerun.
C8_AncestorMtimeMonotone ==
    (indexed /\ prev.valid) =>
        \A i \in DOMAIN listing :
            OnlyMtimeIncreased(i) =>
                \A d \in AncestorDirs(listing[i].name) :
                    MetadataKey(d) \in DOMAIN prev.redis =>
                        /\ MetadataKey(d) \in DOMAIN redis
                        /\ StoredMtime(redis, MetadataKey(d))
                              >= StoredMtime(prev.redis, MetadataKey(d))

\* C8 witness: after such a rerun an ancestor's st_mtime is larger than before.
C8_Witness ==
    /\ indexed
    /\ prev.valid
    /\ \E i \in DOMAIN listing :
          /\ OnlyMtimeIncreased(i)
          /\ \E d \in AncestorDirs(listing[i].name) :
                /\ MetadataKey(d) \in DOMAIN prev.redis
                /\ MetadataKey(d) \in DOMAIN redis
                /\ StoredMtime(redis, MetadataKey(d))
                      > StoredMtime(prev.redis, MetadataKey(d))

\* C9: after indexing an empty bucket readdir('/') is empty and getattr('/')
\* returns a directory record with st_size = 4 * BLOCK_SIZE.
C9_EmptyBucketRoot ==
    (indexed /\ runs = 1 /\ listing = <<>>) =>
        /\ ReadDir(redis, base_key, <<"/">>).names = {}
        /\ IsDirRecord(GetAttr(redis, base_key, <<"/">>))
        /\ GetAttr(redis, base_key, <<"/">>).attrs[PyStr("st_size")] = 4 * BLOCK_SIZE

\* C10: on every index state getattr of every path ends in exactly one of:
\* a regular-file record, a directory record, NotFound.
C10_ThreeOutcomes ==
    \A p \in Paths :
        LET res == GetAttr(redis, base_key, p)
        IN  \/ IsFileRecord(res) /\ ~IsDirRecord(res)
            \/ IsDirRecord(res) /\ ~IsFileRecord(res)
            \/ res.tag = "ENOENT"


\* C4: open(p), write(p, data, 0), flush(p), release(p) and a fresh open(p),
\* one after the other, leave data in the session buffer of p and in the
\* object.
C4_WriteFlushReopenRoundTrip ==
    trip.stage = "reopened" =>
        /\ trip.path \in DOMAIN temp_files
        /\ temp_files[trip.path] = trip.data
        /\ objects[Tail(trip.path)].content = trip.data

\* C5: read(p, length, offset) on an open session returns the bytes
\* buffer[offset : offset+length], clamped to the end of the buffer.
C5_ReadReturnsClampedSlice ==
    (last.op = "read" /\ last.path \in DOMAIN temp_files) =>
        /\ last.res.tag = "ok"
        /\ last.res.type = "bytes"
        /\ last.res.val = PySlice(temp_files[last.path], last.offset, last.length)

\* C6: open(p) of a path with no object fails with NotFound (ENOENT) and
\* leaves the session table as it was.
C6_OpenMissingNotFound ==
    (last.op = "open" /\ Tail(last.path) \notin DOMAIN objects) =>
        /\ last.res.tag = "ENOENT"
        /\ temp_files = last.before

\* C11: a flush of a session whose buffer no write has modified is a no-op:
\* it leaves the object store as it was. (write raises at line 233, so no
\* buffer is ever modified and every flush is a flush of an unmodified
\* session.)
C11_FlushUnmodifiedIsNoOp ==
    [][\A p \in FilePaths : Flush(p) => objects' = objects]_vars

\* C12: release(p) on a path with a live session removes that session,
\* leaves the sessions of all other paths as they were and leaves the object
\* store as it was.
C12_ReleaseDiscardsSession ==
    [][\A p \in FilePaths :
          (Release(p) /\ p \in DOMAIN temp_files) =>
              /\ DOMAIN temp_files' = DOMAIN temp_files \ {p}
              /\ \A q \in DOMAIN temp_files' : temp_files'[q] = temp_files[q]
              /\ objects' = objects]_vars

\* C12 witness: a session whose buffer differs from the object (another
\* client replaced the object after the open) was released beside a live
\* session of another path, and the object still differs from that buffer.
C12_Witness ==
    /\ last.op = "release"
    /\ last.res.tag = "ok"
    /\ last.path \notin DOMAIN temp_files
    /\ temp_files # NoKeys
    /\ Tail(last.path) \in DOMAIN objects
    /\ objects[Tail(last.path)].content # last.buffer

\* C13: read(p, length, offset) on a path with no session, whose object
\* exists, does not fail: it installs the object's content as the session
\* buffer of p and serves the read.
C13_ReadWithoutSessionRefetches ==
    [][\A p \in FilePaths, length \in Lengths, offset \in Offsets :
          (Read(p, length, offset) /\ p \notin DOMAIN temp_files
                                   /\ Tail(p) \in DOMAIN objects) =>
              /\ last'.res.tag = "ok"
              /\ p \in DOMAIN temp_files'
              /\ temp_files'[p] = objects[Tail(p)].content]_vars

\* C14: when the upload of flush(p) does not reach the store, flush ends in
\* an error and the session table, the buffer of p included, is as it was.
C14_FlushFailureSurfaced ==
    [][\A p \in FilePaths :
          (Flush(p) /\ p \in DOMAIN temp_files /\ Tail(p) \in DOMAIN objects
                    /\ ~last'.uploaded) =>
              /\ last'.res.tag # "ok"
              /\ p \in DOMAIN temp_files'
              /\ temp_files' = temp_files
              /\ objects' = objects]_vars

\* C14 witness: a flush of a live session failed in the upload; the buffer
\* is still there and differs from the object, which is unchanged.
C14_Witness ==
    /\ last.op = "flush"
    /\ last.res.tag = "UploadError"
    /\ last.path \in DOMAIN temp_files
    /\ temp_files[last.path] # objects[Tail(last.path)].content

\* The listed blobs stored under directory d, at any depth.
BlobsUnder(d) == {i \in DOMAIN listing : IsPrefix(d, FusePath(listing[i].name))}

StoredTime(r, key, field) == ParseNum(r[key].fields[field])

\* C15: after a full indexer run every ancestor directory of every listed
\* blob has a Directory Metadata Record whose st_mtime and st_atime are the
\* latest update time and whose st_ctime is the earliest creation time over
\* all listed blobs under that directory.
C15_DirectoryRecordMaxMin ==
    indexed =>
        \A i \in DOMAIN listing :
            \A d \in AncestorDirs(listing[i].name) :
                /\ MetadataKey(d) \in DOMAIN redis
                /\ \A j \in BlobsUnder(d) :
                      /\ StoredTime(redis, MetadataKey(d), "st_mtime") >= listing[j].updated
                      /\ StoredTime(redis, MetadataKey(d), "st_atime") >= listing[j].updated
                      /\ StoredTime(redis, MetadataKey(d), "st_ctime") <= listing[j].time_created

\* A key of the database that holds a non-empty hash.
HoldsRecord(key) ==
    key \in DOMAIN redis /\ redis[key].type = "hash" /\ DOMAIN redis[key].fields # {}

\* One of the three candidate keys of a path holds a record.
CandidateHoldsRecord(p) ==
    \/ HoldsRecord(base_key \o p)
    \/ HoldsRecord(base_key \o p \o <<DIR_METADATA>>)
    \/ HoldsRecord(base_key \o p \o <<"/", DIR_METADATA>>)

\* C16: getattr(path) ends in NotFound exactly when none of the three
\* candidate keys holds a record, and returns a record whenever one does.
C16_NotFoundIffNoCandidate ==
    \A p \in Paths :
        LET res == GetAttr(redis, base_key, p)
        IN  /\ (res.tag = "ENOENT") <=> ~CandidateHoldsRecord(p)
            /\ CandidateHoldsRecord(p) => res.tag = "ok"

\* The step of the indexer in which pipe.execute() of the blob at hand fails.
BatchFails ==
    /\ phase = "indexing"
    /\ phase' = "stopped"
    /\ redis' = IndexBlobResult(redis, base_key, listing[cursor],
                                NumParts(listing[cursor]) + 1).redis

\* C17: when the batch of a blob fails the run ends and the database holds
\* no write made for that blob: it is as it was before the blob's round.
C17_BatchAllOrNothing ==
    [][BatchFails => redis' = redis]_vars

\* C18: open(p) on a path that has a live session, whose object exists,
\* leaves one buffer for p, the content the store holds now, and leaves the
\* sessions of all other paths as they were.
C18_LastOpenWins ==
    [][\A p \in FilePaths :
          (Open(p) /\ p \in DOMAIN temp_files /\ Tail(p) \in DOMAIN objects) =>
              /\ DOMAIN temp_files' = DOMAIN temp_files
              /\ temp_files'[p] = objects[Tail(p)].content
              /\ \A q \in DOMAIN temp_files \ {p} : temp_files'[q] = temp_files[q]]_vars

\* C18 witness: a path was opened again beside a live session of another
\* path; its earlier buffer differed from the object and is gone.
C18_Witness ==
    /\ last.op = "open"
    /\ last.res.tag = "ok"
    /\ last.path \in DOMAIN last.before
    /\ last.before[last.path] # temp_files[last.path]
    /\ temp_files[last.path] = objects[Tail(last.path)].content
    /\ \E q \in DOMAIN temp_files : q # last.path

\* C19: flush(p) or release(p) on a path with no live session fails with
\* NotFound (ENOENT) and leaves the session table and the object store as
\* they were.
C19_OutOfOrderNotFound ==
    [][\A p \in FilePaths :
          ((Flush(p) \/ Release(p)) /\ p \notin DOMAIN temp_files) =>
              /\ last'.res.tag = "ENOENT"
              /\ temp_files' = temp_files
              /\ objects' = objects]_vars

\* C20: after open(p), open(p), release(p) no session of p is left, and a
\* read, flush or release of p that follows faults on the missing session
\* and changes neither the session table nor the object store.
C20_NoReferenceCounting ==
    /\ [](trip.stage = "one_released" => trip.path \notin DOMAIN temp_files)
    /\ [][\A p \in FilePaths :
             (/\ trip.stage = "one_released"
              /\ trip.path = p
              /\ \/ \E length \in Lengths, offset \in Offsets : Read(p, length, offset)
                 \/ Flush(p)
                 \/ Release(p)) =>
                 /\ last'.res.tag \in {"KeyError", "AttributeError"}
                 /\ temp_files' = temp_files
                 /\ objects' = objects]_vars

\* C20 witness: a path whose object exists was opened twice and released
\* once, and has no session.
C20_Witness ==
    /\ trip.stage = "one_released"
    /\ trip.path \notin DOMAIN temp_files
    /\ Tail(trip.path) \in DOMAIN objects
    /\ last.op = "release"
    /\ last.res.tag = "ok"

====
